---- MODULE Spec2Model ----
(***************************************************************************)
(* A model of the indexing core of rtags: IndexerJob (construction,        *)
(* identifiers, priority, payload encoding) and the file-visitation        *)
(* bookkeeping of Project (visitFile, releaseFileIds, visitedFiles).       *)
(***************************************************************************)
EXTENDS Integers, Sequences, FiniteSets, TLC

(***************************************************************************)
(* Bounds of the model.                                                    *)
(***************************************************************************)
\* file identifiers are 1..NumFiles; 0 is "no file"
NumFiles == 2
\* IndexerJob constructions explored in one behaviour
MaxJobs == 2
\* longest source list handed to the IndexerJob constructor
MaxSources == 3
\* threads calling into one Project concurrently
NumThreads == 2
\* identifiers handed out by acquireId in one behaviour of SpecIds
MaxIds == 4
\* files of the dependency graph are 1..NumNodes
NumNodes == 3
\* most include edges a dependency graph has
MaxEdges == 3
\* encode() calls in one behaviour of SpecEncode
MaxEncodes == 2
\* most symbols the symbol table of a file holds
MaxSymbols == 2
\* changes of buffers, focus and includes in one behaviour of SpecCache
MaxChanges == 2

FileIds == 1..NumFiles
Threads == 1..NumThreads

\* build roots a compile command of a file can come from
BuildRoots == {0, 1}

\* Path values: "" is the empty Path (Path::isEmpty())
EmptyPath == ""
Paths == {EmptyPath, "/a", "/b"}

(***************************************************************************)
(* Source: one compile command.  Source.h is not part of the sources at    *)
(* hand; key() and compareArguments() follow the data model of the         *)
(* specification.                                                          *)
(***************************************************************************)
MakeSource(f, b, a) ==
    [fileId |-> f, buildRootId |-> b, arguments |-> a,
     includePaths |-> <<>>, defines |-> {}]

\* Source::key(): identifies the compile command (file and build root); never 0
KeyShift == 4
SourceKey(src) == src.fileId * KeyShift + src.buildRootId

\* Source::compareArguments(): the two commands have the same effective arguments
compareArguments(a, b) == a.arguments = b.arguments

Keys == {f * KeyShift + b : f \in FileIds, b \in BuildRoots}
\* a key no source of the project has: what a stale worker message may carry
StaleKey == (NumFiles + 1) * KeyShift

(***************************************************************************)
(* IndexerJob::IndexerJob                                                  *)
(***************************************************************************)
INT_ZERO == 1 - 1
INT_MIN == (-2147483647) - 1

\* lines 44-50: is src argument-equivalent to a source already kept?
FoundLastOnly(src, kept) ==
    compareArguments(src, kept[Len(kept)])
Found(src, kept) ==
    \E j \in 1..Len(kept) : compareArguments(src, kept[j])

\* lines 41-53: `sources` after the loop has handled s[1..i]
RECURSIVE KeptSources(_, _)
KeptSources(s, i) ==
    IF i = 1 THEN <<s[1]>>
    ELSE LET kept == KeptSources(s, i - 1)
         IN  IF Found(s[i], kept) THEN kept ELSE Append(kept, s[i])

\* the job the constructor leaves for a non-empty list s, given sNextId = next
NewJob(s, f, next) ==
    LET srcs == KeptSources(s, Len(s))
    IN  [id |-> next, flags |-> f, sources |-> srcs,
         sourceFile |-> s[1].fileId, visited |-> {srcs[1].fileId},
         crashCount |-> 0, mCachedPriority |-> INT_MIN]

(***************************************************************************)
(* State                                                                   *)
(***************************************************************************)
VARIABLES
    mVisitedFiles,  \* Project::mVisitedFiles: file id -> path (a Hash)
    mVisitedOrder,  \* the order in which iterating mVisitedFiles meets its keys
    mActiveJobs,    \* Project::mActiveJobs: source key -> job
    sNextId,        \* IndexerJob::sNextId
    aborted,        \* the process died: "" (alive), "assert", "crash"
    ret,            \* what the last visitFile returned: "true", "false", or ""
    called,         \* file ids visitFile was called on since their last release
    mMutex,         \* Project::mMutex: 0 when free, else the thread holding it
    pc,             \* per thread: where it is in the call it is making
    targ,           \* per thread: the arguments of that call
    tmpId,          \* per thread: the value of sNextId read by `sNextId++`
    jobIds,         \* the identifiers handed out, in the order they were assigned
    overlapped,     \* two acquireId calls have run at the same time
    trueCount,      \* per file id: visitFile calls that returned true since it
                    \* was last unclaimed (counted up to 2)
    lost,           \* per file id: some visitFile call returned false since then
    lastRead,       \* the map as the last reader copied it
    tornRead,       \* a reader copied the map while another call was inside it
    job,            \* the IndexerJob the last constructor call left
    ctorInput,      \* the source list that call was given
    ctorOutcome,    \* how it ended: "" (none yet), "ok", "assert", "crash",
                    \* "garbage" (it went on with an element that is not there)
    includes,       \* DependencyNode::includes: file -> files it includes
    nodes,          \* files that have a DependencyNode in the project
    isSystem,       \* files whose path is a system header (Path::isSystem)
    bufferType,     \* Server::activeBufferType: file -> Active | Open | Inactive
    focused,        \* Server::currentProject() is the job's project
    loaded,         \* Server::project(path) finds the job's project
    pjobs,          \* the jobs whose priority is asked for
    found,          \* per job: what the include traversal returned
    ppc,            \* where priority() is: "idle", "traverse", "finish", "crash"
    cur,            \* the job priority() is running for
    acc,            \* priority(): the local `ret`
    seen,           \* priority(): the local set `seen`
    stack,          \* priority(): the frames of func, innermost last
    insertCount,    \* per file: successful seen.insert calls (counted up to 2)
    expandCount,    \* per file: calls of func on its node (counted up to 2)
    steps,          \* loop iterations and returns of func so far
    returned,       \* per job: what priority() has returned since the cache was
                    \* last reset, each with whether the state had moved on
    expected,       \* per job: the priority the state gave when the cached
                    \* value was last computed
    caller,         \* per job: the call that computed the cached value
    changes,        \* changes of buffers, focus and includes so far
    options,        \* Server::options(): the process-wide options
    payload,        \* what the last encode() returned
    encodedFrom,    \* mVisitedFiles and its order when payload was made
    encodeCalls,    \* encode() calls so far
    repeated,       \* encode() has run again on the state of the call before
    lsStore,        \* per file: the symbol names of its symbol table
    lsProject,      \* QueryJob::project() is there
    lsJob,          \* the ListSymbolsJob: its string, flags and filters
    out,            \* execute(): the local set `out`
    written,        \* what execute() has passed to write(), in order
    status          \* what execute() returned: -1 while it has not

projVars == <<mVisitedFiles, mVisitedOrder, mActiveJobs, sNextId, aborted, ret, called>>
thrVars == <<mMutex, pc, targ, tmpId, jobIds, overlapped, trueCount, lost, lastRead,
            tornRead>>

ctorVars == <<job, ctorInput, ctorOutcome>>
envVars == <<includes, nodes, isSystem, bufferType, focused, loaded>>
prioVars == <<pjobs, found, ppc, cur, acc, seen, stack, insertCount, expandCount, steps,
             returned, expected, caller, changes>>
encVars == <<options, payload, encodedFrom, encodeCalls, repeated>>
lsVars == <<lsStore, lsProject, lsJob, out, written, status>>
restVars == <<ctorVars, envVars, prioVars, encVars, lsVars>>

vars == <<projVars, thrVars, restVars>>

\* Hash<K,V> helpers
Contains(h, k) == k \in DOMAIN h
Put(h, k, v) == [x \in (DOMAIN h) \cup {k} |-> IF x = k THEN v ELSE h[x]]
RemoveNone(h, ks) == h
Remove(h, ks) == [x \in (DOMAIN h) \ ks |-> h[x]]

EmptyHash == <<>>

\* A Hash is an unordered map: iterating it meets the keys in an order that
\* stays as it is while the map is not changed; an erased key leaves the
\* order, an inserted key lands anywhere in it.
InsertAt(o, i, k) == SubSeq(o, 1, i - 1) \o <<k>> \o SubSeq(o, i, Len(o))
RECURSIVE Keep(_, _)
Keep(o, D) ==
    IF o = <<>> THEN <<>>
    ELSE IF Head(o) \in D THEN <<Head(o)>> \o Keep(Tail(o), D)
    ELSE Keep(Tail(o), D)
RECURSIVE OrderAfter(_, _)
OrderAfter(o, D) ==
    LET kept == Keep(o, D)
        new == D \ {kept[i] : i \in 1..Len(kept)}
    IN  IF new = {} THEN {kept}
        ELSE UNION {OrderAfter(InsertAt(kept, i, k), D) :
                        i \in 1..(Len(kept) + 1), k \in new}

NoArgs == [fileId |-> 0, path |-> EmptyPath, key |-> 0, fileIds |-> {}]

InitThreadVars ==
    /\ mMutex = 0
    /\ pc = [t \in Threads |-> "idle"]
    /\ targ = [t \in Threads |-> NoArgs]
    /\ tmpId = [t \in Threads |-> 0]
    /\ jobIds = <<>>
    /\ overlapped = FALSE
    /\ trueCount = [f \in FileIds |-> 0]
    /\ lost = [f \in FileIds |-> FALSE]
    /\ lastRead = EmptyHash
    /\ tornRead = FALSE

NoJob == [id |-> 0]

InitCtorVars ==
    /\ job = NoJob
    /\ ctorInput = <<>>
    /\ ctorOutcome = ""

Nodes == 1..NumNodes

NoFrames == <<>>

InitGraphVars ==
    /\ includes = [f \in Nodes |-> {}]
    /\ nodes = {}
    /\ isSystem = {}
    /\ bufferType = [f \in Nodes |-> "Inactive"]
    /\ focused = FALSE

InitTraversalVars ==
    /\ pjobs = EmptyHash
    /\ found = EmptyHash
    /\ ppc = "idle"
    /\ cur = 0
    /\ acc = 0
    /\ seen = {}
    /\ stack = NoFrames
    /\ insertCount = [f \in Nodes |-> 0]
    /\ expandCount = [f \in Nodes |-> 0]
    /\ steps = 0
    /\ returned = EmptyHash
    /\ expected = EmptyHash
    /\ caller = EmptyHash
    /\ changes = 0

InitPriorityVars == InitGraphVars /\ loaded = TRUE /\ InitTraversalVars

NoOptions == [options |-> {}, defaultArguments |-> <<>>, includePaths |-> <<>>,
              defines |-> {}, blockedArguments |-> {}]
NoPayload == <<>>

InitEncodeVars ==
    /\ options = NoOptions
    /\ payload = NoPayload
    /\ encodedFrom = <<>>
    /\ encodeCalls = 0
    /\ repeated = FALSE

LsFiles == {1, 2}
NoListJob == [made |-> FALSE, string |-> <<>>, flags |-> {}, filters |-> <<>>,
              kinds |-> {}]

InitListVars ==
    /\ lsStore = [f \in LsFiles |-> {}]
    /\ lsProject = FALSE
    /\ lsJob = NoListJob
    /\ out = {}
    /\ written = <<>>
    /\ status = -1

InitRest == InitCtorVars /\ InitPriorityVars /\ InitEncodeVars /\ InitListVars

InitProject ==
    /\ mVisitedFiles = EmptyHash
    /\ mVisitedOrder = <<>>
    /\ mActiveJobs = EmptyHash
    /\ sNextId = 1
    /\ aborted = ""
    /\ ret = ""
    /\ called = {}

(***************************************************************************)
(* Project::index (admission) is declared in Project.h only; admission     *)
(* follows section 4.4 of the specification: a source is scheduled only if *)
(* no active job holds its key.  The job itself is built by the            *)
(* constructor of IndexerJob.cpp.                                          *)
(***************************************************************************)
\* one compile command per file is indexed here
IndexSources == {MakeSource(f, 0, <<>>) : f \in FileIds}

Index(src) ==
    /\ aborted = ""
    /\ sNextId <= MaxJobs
    /\ ~Contains(mActiveJobs, SourceKey(src))
    /\ mActiveJobs' = Put(mActiveJobs, SourceKey(src), NewJob(<<src>>, {}, sNextId))
    /\ sNextId' = sNextId + 1
    /\ ret' = ""
    /\ UNCHANGED <<mVisitedFiles, mVisitedOrder, aborted, called>>
    /\ UNCHANGED <<thrVars, restVars>>

(***************************************************************************)
(* Project::visitFile (Project.h 193-209)                                  *)
(***************************************************************************)
\* line 197: operator[] yields the stored path, or a fresh empty one
StoredPath(h, fileId) == IF Contains(h, fileId) THEN h[fileId] ELSE EmptyPath

\* line 198: the file counts as claimed when the stored path is not empty
IsClaimedNever(h, fileId) == FALSE
IsClaimed(h, fileId) == StoredPath(h, fileId) # EmptyPath

\* lines 202-204: the job registered under key gets the file in its visited set
AddVisitedAll(jobs, key, fileId) ==
    [k \in DOMAIN jobs |-> [jobs[k] EXCEPT !.visited = @ \cup {fileId}]]
AddVisited(jobs, key, fileId) ==
    [jobs EXCEPT ![key].visited = @ \cup {fileId}]

VisitFile(fileId, path, key) ==
    /\ aborted = ""
    /\ IF fileId = 0
       THEN \* line 196: assert(visitFileId)
            /\ aborted' = "assert"
            /\ ret' = ""
            /\ UNCHANGED <<mVisitedFiles, mVisitedOrder, mActiveJobs, called>>
       ELSE
         /\ called' = called \cup {fileId}
         /\ IF ~IsClaimed(mVisitedFiles, fileId)
            THEN /\ mVisitedFiles' = Put(mVisitedFiles, fileId, path)
                 /\ IF key # 0 /\ ~Contains(mActiveJobs, key)
                    THEN \* line 201: the assertion fails; without assertions
                         \* line 204 dereferences the null job operator[] made
                         /\ \E how \in {"assert", "crash"} : aborted' = how
                         /\ ret' = ""
                         /\ UNCHANGED mActiveJobs
                    ELSE /\ mActiveJobs' = IF key # 0
                                           THEN AddVisited(mActiveJobs, key, fileId)
                                           ELSE mActiveJobs
                         /\ ret' = "true"
                         /\ UNCHANGED aborted
            ELSE /\ mVisitedFiles' = Put(mVisitedFiles, fileId,
                                         StoredPath(mVisitedFiles, fileId))
                 /\ ret' = "false"
                 /\ UNCHANGED <<mActiveJobs, aborted>>
    /\ mVisitedOrder' \in OrderAfter(mVisitedOrder, DOMAIN mVisitedFiles')
    /\ UNCHANGED sNextId
    /\ UNCHANGED <<thrVars, restVars>>

(***************************************************************************)
(* Project::releaseFileIds (Project.h 211-220)                             *)
(***************************************************************************)
ReleaseFileIds(fileIds) ==
    /\ aborted = ""
    /\ mVisitedFiles' = Remove(mVisitedFiles, fileIds)
    /\ mVisitedOrder' \in OrderAfter(mVisitedOrder, DOMAIN mVisitedFiles')
    /\ called' = called \ fileIds
    /\ ret' = ""
    /\ UNCHANGED <<mActiveJobs, sNextId, aborted>>
    /\ UNCHANGED <<thrVars, restVars>>

Init == InitProject /\ InitThreadVars /\ InitRest

Next ==
    \/ \E src \in IndexSources : Index(src)
    \/ \E fileId \in 0..NumFiles, path \in Paths,
          key \in {0, StaleKey} \cup DOMAIN mActiveJobs :
          VisitFile(fileId, path, key)
    \/ \E fileIds \in SUBSET FileIds : ReleaseFileIds(fileIds)

Spec == Init /\ [][Next]_vars

(***************************************************************************)
(* The same Project called from several threads.  Every call takes         *)
(* mMutex with a std::lock_guard for its whole body; the steps below are   *)
(* the reads and writes of that body.  IndexerJob::acquireId takes no      *)
(* lock: `id = sNextId++` is a read of sNextId followed by a write.        *)
(* Callers pass what a worker sends: a resolved (non-empty) path and the   *)
(* key 0 or the key of a registered job.                                   *)
(***************************************************************************)
\* std::lock_guard<std::mutex> lock(mMutex): can the lock be taken?
LockFreeAlways(m) == TRUE
LockFree(m) == m = 0

\* IndexerJob::acquireId line 68: the value written back by sNextId++
NextIdSame(n) == n
NextId(n) == n + 1

ThreadSource == MakeSource(1, 0, <<>>)

\* the keys callers pass: none, one no job is registered under, registered ones
CallerKeys == {0, StaleKey} \cup DOMAIN mActiveJobs

\* visitFile and releaseFileIds called one after the other while one job is
\* registered (InitThreads)
NextVisit ==
    \/ \E fileId \in 0..NumFiles, path \in Paths, key \in CallerKeys :
          VisitFile(fileId, path, key)
    \/ \E fileIds \in SUBSET FileIds : ReleaseFileIds(fileIds)

InitThreads ==
    /\ InitThreadVars
    /\ InitRest
    /\ mVisitedFiles = EmptyHash
    /\ mVisitedOrder = <<>>
    /\ mActiveJobs = Put(EmptyHash, SourceKey(ThreadSource), NewJob(<<ThreadSource>>, {}, 0))
    /\ sNextId = 1
    /\ aborted = ""
    /\ ret = ""
    /\ called = {}

SpecVisit == InitThreads /\ [][NextVisit]_vars

\* the same calls while two jobs are registered, both for file 1, from the
\* compile commands of its two build roots
OtherSource == MakeSource(1, 1, <<>>)

InitJobs ==
    /\ InitThreadVars
    /\ InitRest
    /\ mVisitedFiles = EmptyHash
    /\ mVisitedOrder = <<>>
    /\ mActiveJobs = Put(Put(EmptyHash, SourceKey(ThreadSource),
                             NewJob(<<ThreadSource>>, {}, 0)),
                         SourceKey(OtherSource), NewJob(<<OtherSource>>, {}, 1))
    /\ sNextId = 2
    /\ aborted = ""
    /\ ret = ""
    /\ called = {}

SpecJobs == InitJobs /\ [][NextVisit]_vars

\* some thread other than t is between the lock and the unlock of a writer
MidUpdate(t) ==
    \E u \in Threads \ {t} : pc[u] \in {"vf_test", "vf_assign", "rel_loop"}

Bump(n) == IF n < 2 THEN n + 1 ELSE 2

\* visitFile lines 195-197: take the lock, look the file up with operator[]
VfLock(t, fileId, path, key) ==
    /\ pc[t] = "idle"
    /\ LockFree(mMutex)
    /\ mMutex' = t
    /\ mVisitedFiles' = Put(mVisitedFiles, fileId, StoredPath(mVisitedFiles, fileId))
    /\ mVisitedOrder' \in OrderAfter(mVisitedOrder, DOMAIN mVisitedFiles')
    /\ targ' = [targ EXCEPT ![t] = [NoArgs EXCEPT !.fileId = fileId, !.path = path,
                                                  !.key = key]]
    /\ pc' = [pc EXCEPT ![t] = "vf_test"]
    /\ UNCHANGED <<mActiveJobs, sNextId, aborted, ret, called, tmpId, jobIds,
                   overlapped, trueCount, lost, lastRead, tornRead>>
    /\ UNCHANGED restVars

\* visitFile line 198 (and 208 with the unlock): p.isEmpty()?
VfTest(t) ==
    /\ pc[t] = "vf_test"
    /\ IF ~IsClaimed(mVisitedFiles, targ[t].fileId)
       THEN /\ pc' = [pc EXCEPT ![t] = "vf_assign"]
            /\ UNCHANGED <<mMutex, targ, lost>>
       ELSE /\ pc' = [pc EXCEPT ![t] = "idle"]
            /\ lost' = [lost EXCEPT ![targ[t].fileId] = TRUE]
            /\ targ' = [targ EXCEPT ![t] = NoArgs]
            /\ mMutex' = IF mMutex = t THEN 0 ELSE mMutex
    /\ UNCHANGED <<mVisitedFiles, mVisitedOrder, mActiveJobs, sNextId, aborted, ret, called, tmpId,
                   jobIds, overlapped, trueCount, lastRead, tornRead>>
    /\ UNCHANGED restVars

\* visitFile lines 199-206: record the path, add the file to the job, unlock
VfAssign(t) ==
    /\ pc[t] = "vf_assign"
    /\ mVisitedFiles' = Put(mVisitedFiles, targ[t].fileId, targ[t].path)
    /\ mVisitedOrder' \in OrderAfter(mVisitedOrder, DOMAIN mVisitedFiles')
    /\ mActiveJobs' = IF targ[t].key # 0
                      THEN AddVisited(mActiveJobs, targ[t].key, targ[t].fileId)
                      ELSE mActiveJobs
    /\ trueCount' = [trueCount EXCEPT ![targ[t].fileId] = Bump(@)]
    /\ pc' = [pc EXCEPT ![t] = "idle"]
    /\ targ' = [targ EXCEPT ![t] = NoArgs]
    /\ mMutex' = IF mMutex = t THEN 0 ELSE mMutex
    /\ UNCHANGED <<sNextId, aborted, ret, called, tmpId, jobIds, overlapped, lost,
                   lastRead, tornRead>>
    /\ UNCHANGED restVars

\* releaseFileIds lines 213-214: a non-empty set takes the lock (an empty one
\* returns at once)
RelLock(t, fileIds) ==
    /\ pc[t] = "idle"
    /\ fileIds # {}
    /\ LockFree(mMutex)
    /\ mMutex' = t
    /\ targ' = [targ EXCEPT ![t] = [NoArgs EXCEPT !.fileIds = fileIds]]
    /\ pc' = [pc EXCEPT ![t] = "rel_loop"]
    /\ UNCHANGED <<mVisitedFiles, mVisitedOrder, mActiveJobs, sNextId, aborted, ret, called, tmpId,
                   jobIds, overlapped, trueCount, lost, lastRead, tornRead>>
    /\ UNCHANGED restVars

\* releaseFileIds lines 215-219: remove the next file id; after the last, unlock
RelRemove(t) ==
    /\ pc[t] = "rel_loop"
    /\ LET f == CHOOSE x \in targ[t].fileIds : \A y \in targ[t].fileIds : x <= y
           rest == targ[t].fileIds \ {f}
       IN /\ mVisitedFiles' = Remove(mVisitedFiles, {f})
          /\ mVisitedOrder' \in OrderAfter(mVisitedOrder, DOMAIN mVisitedFiles')
          /\ trueCount' = [trueCount EXCEPT ![f] = 0]
          /\ lost' = [lost EXCEPT ![f] = FALSE]
          /\ targ' = [targ EXCEPT ![t].fileIds = rest]
          /\ pc' = [pc EXCEPT ![t] = IF rest = {} THEN "idle" ELSE "rel_loop"]
          /\ mMutex' = IF rest = {} /\ mMutex = t THEN 0 ELSE mMutex
    /\ UNCHANGED <<mActiveJobs, sNextId, aborted, ret, called, tmpId, jobIds,
                   overlapped, lastRead, tornRead>>
    /\ UNCHANGED restVars

\* visitedFiles lines 146-150: copy the map under the lock
VisitedFiles(t) ==
    /\ pc[t] = "idle"
    /\ LockFree(mMutex)
    /\ lastRead' = mVisitedFiles
    /\ tornRead' = (tornRead \/ MidUpdate(t))
    /\ UNCHANGED <<projVars, mMutex, pc, targ, tmpId, jobIds, overlapped, trueCount,
                   lost>>
    /\ UNCHANGED restVars

\* encodeVisitedFiles lines 151-155: serialize the map under the lock
EncodeVisitedFiles(t) ==
    /\ pc[t] = "idle"
    /\ LockFree(mMutex)
    /\ lastRead' = mVisitedFiles
    /\ tornRead' = (tornRead \/ MidUpdate(t))
    /\ UNCHANGED <<projVars, mMutex, pc, targ, tmpId, jobIds, overlapped, trueCount,
                   lost>>
    /\ UNCHANGED restVars

\* acquireId line 68, first half: read sNextId
AcquireRead(t) ==
    /\ pc[t] = "idle"
    /\ Len(jobIds) < MaxIds
    /\ tmpId' = [tmpId EXCEPT ![t] = sNextId]
    /\ overlapped' = (overlapped \/ \E u \in Threads \ {t} : pc[u] = "acquire")
    /\ pc' = [pc EXCEPT ![t] = "acquire"]
    /\ UNCHANGED <<projVars, mMutex, targ, jobIds, trueCount, lost, lastRead, tornRead>>
    /\ UNCHANGED restVars

\* acquireId line 68, second half: write sNextId, assign id
AcquireWrite(t) ==
    /\ pc[t] = "acquire"
    /\ sNextId' = NextId(tmpId[t])
    /\ jobIds' = Append(jobIds, tmpId[t])
    /\ tmpId' = [tmpId EXCEPT ![t] = 0]
    /\ pc' = [pc EXCEPT ![t] = "idle"]
    /\ UNCHANGED <<mVisitedFiles, mVisitedOrder, mActiveJobs, aborted, ret, called, mMutex, targ,
                   overlapped, trueCount, lost, lastRead, tornRead>>
    /\ UNCHANGED restVars

NextThreads ==
    \/ \E t \in Threads, fileId \in FileIds, path \in Paths \ {EmptyPath},
          key \in DOMAIN mActiveJobs : VfLock(t, fileId, path, key)
    \/ \E t \in Threads : VfTest(t)
    \/ \E t \in Threads : VfAssign(t)
    \/ \E t \in Threads, fileIds \in SUBSET FileIds : RelLock(t, fileIds)
    \/ \E t \in Threads : RelRemove(t)
    \/ \E t \in Threads : VisitedFiles(t)
    \/ \E t \in Threads : EncodeVisitedFiles(t)

SpecThreads == InitThreads /\ [][NextThreads]_vars

\* IndexerJob constructions (their acquireId) started from several threads
NextIds ==
    \/ \E t \in Threads : AcquireRead(t)
    \/ \E t \in Threads : AcquireWrite(t)

SpecIds == Init /\ [][NextIds]_vars

(***************************************************************************)
(* IndexerJob::IndexerJob called on its own (IndexerJob.cpp 34-59).        *)
(***************************************************************************)
CtorSources == {MakeSource(1, b, a) : b \in BuildRoots, a \in {<<>>, <<"-O2">>}}

RECURSIVE SeqsUpTo(_, _)
SeqsUpTo(S, n) ==
    IF n = 0 THEN {<<>>}
    ELSE LET shorter == SeqsUpTo(S, n - 1)
         IN  shorter \cup {Append(q, x) : q \in {r \in shorter : Len(r) = n - 1}, x \in S}

SourceLists == SeqsUpTo(CtorSources, MaxSources)
FlagSets == SUBSET {"Dirty", "Reindex"}

\* line 55: assert(!sources.empty())
EmptyAssertFails(kept) == Len(kept) = 0

Construct(s, f) ==
    /\ sNextId <= MaxJobs
    /\ ctorInput' = s
    /\ IF s # <<>>
       THEN /\ job' = NewJob(s, f, sNextId)
            /\ sNextId' = NextId(sNextId)
            /\ ctorOutcome' = "ok"
       ELSE \* line 41: s.front() of an empty list is undefined: the process
            \* dies there, or goes on with whatever it read as an element
            \/ /\ ctorOutcome' = "crash"
               /\ job' = NoJob
               /\ UNCHANGED sNextId
            \/ \E g \in CtorSources :
                  IF EmptyAssertFails(<<g>>)
                  THEN /\ ctorOutcome' = "assert"
                       /\ job' = [NoJob EXCEPT !.id = 0]
                       /\ UNCHANGED sNextId
                  ELSE /\ ctorOutcome' = "garbage"
                       /\ job' = NewJob(<<g>>, f, sNextId)
                       /\ sNextId' = NextId(sNextId)
    /\ UNCHANGED <<mVisitedFiles, mVisitedOrder, mActiveJobs, aborted, ret, called>>
    /\ UNCHANGED <<thrVars, envVars, prioVars, encVars, lsVars>>

NextCtor == \E s \in SourceLists, f \in FlagSets : Construct(s, f)

SpecCtor == Init /\ [][NextCtor]_vars

(***************************************************************************)
(* IndexerJob::priority (IndexerJob.cpp 71-115).  The Server and the       *)
(* dependency graph are the environment: they are chosen at the start and  *)
(* stay as they are while priorities are computed.                         *)
(***************************************************************************)
\* lines 78-82
FlagBonusBoth(flags) ==
    (IF "Dirty" \in flags THEN 1 ELSE 0) + (IF "Reindex" \in flags THEN 4 ELSE 0)
FlagBonus(flags) ==
    IF "Dirty" \in flags THEN 1
    ELSE IF "Reindex" \in flags THEN 4
    ELSE 0

\* lines 84-90: what the switch adds for an Active or Open primary file
BufferBonusOpenLow(type) ==
    IF type = "Active" THEN 8 ELSE IF type = "Open" THEN 1 ELSE 0
BufferBonus(type) ==
    IF type = "Active" THEN 8 ELSE IF type = "Open" THEN 3 ELSE 0

\* line 106
FoundBonus == 2

\* lines 110-111
FocusBonus == IF loaded /\ focused THEN 1 ELSE 0

\* line 76
PrimaryFile(j) == pjobs[j].sources[1].fileId

\* the includes of a node in the order the loop of line 96 meets them
\* (a Map keyed by file id: ascending)
RECURSIVE Ascending(_)
Ascending(S) ==
    IF S = {} THEN <<>>
    ELSE LET m == CHOOSE x \in S : \A y \in S : x <= y
         IN  <<m>> \o Ascending(S \ {m})

Frame(n) == [n |-> n, todo |-> Ascending(includes[n])]

\* line 97: seen.insert(inc.second).second
NewlySeenAlways(s, inc) == TRUE
NewlySeen(s, inc) == inc \notin s

\* lines 98-99, evaluated on n, the node whose includes are being walked
NodeIsSystemNever(n) == FALSE
NodeIsSystem(n) == n \in isSystem
NodeIsActive(n) == bufferType[n] # "Inactive"

Count(n) == IF n < 2 THEN n + 1 ELSE 2

\* line 73
IsCachedNever(j) == FALSE
IsCached(j) == pjobs[j].mCachedPriority # INT_MIN

\* lines 95-104 as a function of the graph and the buffers as they are: what
\* the walk of the includes of n returns, and the seen set it leaves
RECURSIVE Func(_, _, _)
Func(n, todo, s) ==
    IF todo = <<>> THEN [found |-> FALSE, seen |-> s]
    ELSE LET inc == Head(todo)
             s1 == s \cup {inc}
         IN  IF inc \notin s /\ ~NodeIsSystem(n)
             THEN IF NodeIsActive(n) THEN [found |-> TRUE, seen |-> s1]
                  ELSE LET r == Func(inc, Ascending(includes[inc]), s1)
                       IN  IF r.found THEN r ELSE Func(n, Tail(todo), r.seen)
             ELSE Func(n, Tail(todo), s1)

\* lines 74-112: the value priority() computes from the state as it is
\* (with no project and an Inactive file: the outcome in which it returns)
PriorityValue(j) ==
    LET fileId == PrimaryFile(j)
        type == bufferType[fileId]
    IN  FlagBonus(pjobs[j].flags) + BufferBonus(type) + FocusBonus
        + (IF type = "Inactive" /\ loaded /\ fileId \in nodes
              /\ Func(fileId, Ascending(includes[fileId]), {fileId}).found
           THEN FoundBonus ELSE 0)

\* line 114: the value goes to the caller of priority()
Return(j, v) ==
    [returned EXCEPT ![j] = @ \cup {[value |-> v,
                                     stale |-> PriorityValue(j) # expected[j]]}]

\* lines 74-92: the flags, the switch on the buffer type
Compute(j) ==
    /\ cur' = j
    /\ expected' = [expected EXCEPT ![j] = PriorityValue(j)]
    /\ steps' = 0
    /\ LET fileId == PrimaryFile(j)
           type == bufferType[fileId]
           ret0 == FlagBonus(pjobs[j].flags) + BufferBonus(type)
       IN  /\ acc' = ret0
           /\ IF type = "Inactive" /\ ~loaded
              THEN \* line 92: p is null; p->dependencyNode() is undefined:
                   \* the process dies, or the lookup yields no node
                   /\ \E how \in {"crash", "finish"} : ppc' = how
                   /\ found' = [found EXCEPT ![j] = "n/a"]
                   /\ UNCHANGED <<seen, stack, insertCount, expandCount>>
              ELSE IF type = "Inactive" /\ fileId \in nodes
              THEN /\ seen' = {fileId}
                   /\ stack' = <<Frame(fileId)>>
                   /\ insertCount' = [f \in Nodes |-> IF f = fileId THEN 1 ELSE 0]
                   /\ expandCount' = [f \in Nodes |-> IF f = fileId THEN 1 ELSE 0]
                   /\ found' = [found EXCEPT ![j] = "no"]
                   /\ ppc' = "traverse"
              ELSE /\ found' = [found EXCEPT ![j] = "n/a"]
                   /\ ppc' = "finish"
                   /\ UNCHANGED <<seen, stack, insertCount, expandCount>>

\* lines 73-92: priority() on a job whose cache is not set
PriorityBegin(j) ==
    /\ ppc = "idle"
    /\ ~IsCached(j)
    /\ Compute(j)
    /\ caller' = [caller EXCEPT ![j] = "priority"]
    /\ UNCHANGED <<pjobs, returned, changes>>
    /\ UNCHANGED <<envVars, projVars, thrVars, ctorVars, encVars, lsVars>>

\* lines 73 and 114: priority() on a job whose cache is set
PriorityCached(j) ==
    /\ ppc = "idle"
    /\ IsCached(j)
    /\ returned' = Return(j, pjobs[j].mCachedPriority)
    /\ UNCHANGED <<pjobs, found, ppc, cur, acc, seen, stack, insertCount, expandCount,
                   steps, expected, caller, changes>>
    /\ UNCHANGED <<envVars, projVars, thrVars, ctorVars, encVars, lsVars>>

\* lines 215-219: the cache is reset and priority() is called; its value is
\* dropped
RecalculatePriority(j) ==
    /\ ppc = "idle"
    /\ pjobs' = [pjobs EXCEPT ![j].mCachedPriority = INT_MIN]
    /\ Compute(j)
    /\ caller' = [caller EXCEPT ![j] = "recalculatePriority"]
    /\ returned' = [returned EXCEPT ![j] = {}]
    /\ UNCHANGED changes
    /\ UNCHANGED <<envVars, projVars, thrVars, ctorVars, encVars, lsVars>>

\* lines 95-104: one iteration of the loop of the innermost func, or its
\* `return false`
TraverseStep ==
    /\ ppc = "traverse"
    /\ stack # NoFrames
    /\ steps' = steps + 1
    /\ LET top == stack[Len(stack)]
           below == SubSeq(stack, 1, Len(stack) - 1)
       IN  IF top.todo = <<>>
           THEN \* line 103: return false; the caller's loop goes on
                /\ stack' = below
                /\ ppc' = IF below = NoFrames THEN "finish" ELSE "traverse"
                /\ UNCHANGED <<seen, insertCount, expandCount, found, acc>>
           ELSE LET inc == Head(top.todo)
                    rest == [top EXCEPT !.todo = Tail(top.todo)]
                    fresh == NewlySeen(seen, inc)
                IN  /\ seen' = seen \cup {inc}
                    /\ insertCount' = IF fresh
                                      THEN [insertCount EXCEPT ![inc] = Count(@)]
                                      ELSE insertCount
                    /\ IF fresh /\ ~NodeIsSystem(top.n)
                       THEN IF NodeIsActive(top.n)
                            THEN \* line 100: return true, all the way up
                                 /\ stack' = NoFrames
                                 /\ found' = [found EXCEPT ![cur] = "yes"]
                                 /\ acc' = acc + FoundBonus
                                 /\ ppc' = "finish"
                                 /\ UNCHANGED expandCount
                            ELSE \* line 99: func(inc.second)
                                 /\ stack' = Append(below, rest) \o <<Frame(inc)>>
                                 /\ expandCount' = [expandCount EXCEPT ![inc] = Count(@)]
                                 /\ UNCHANGED <<found, acc, ppc>>
                       ELSE /\ stack' = Append(below, rest)
                            /\ UNCHANGED <<found, acc, ppc, expandCount>>
    /\ UNCHANGED <<pjobs, cur, returned, expected, caller, changes>>
    /\ UNCHANGED <<envVars, projVars, thrVars, ctorVars, encVars, lsVars>>

\* lines 110-114: the focus bonus, the result is cached and returned
PriorityEnd ==
    /\ ppc = "finish"
    /\ pjobs' = [pjobs EXCEPT ![cur].mCachedPriority = acc + FocusBonus]
    /\ returned' = IF caller[cur] = "priority"
                   THEN Return(cur, acc + FocusBonus) ELSE returned
    /\ UNCHANGED <<expected, caller, changes>>
    /\ acc' = 0
    /\ cur' = 0
    /\ ppc' = "idle"
    /\ UNCHANGED <<found, seen, stack, insertCount, expandCount, steps>>
    /\ UNCHANGED <<envVars, projVars, thrVars, ctorVars, encVars, lsVars>>

NextPriority ==
    \/ \E j \in DOMAIN pjobs : PriorityBegin(j)
    \/ TraverseStep
    \/ PriorityEnd

\* the graphs: every set of at most MaxEdges include edges over the files
EdgeSets == {E \in SUBSET (Nodes \X Nodes) : Cardinality(E) <= MaxEdges}
IncludesOf(E) == [f \in Nodes |-> {g \in Nodes : <<f, g>> \in E}]
Endpoints(E) == {e[1] : e \in E} \cup {e[2] : e \in E}

BufferTypes == {"Active", "Open", "Inactive"}

PriorityJob(fileId, flags, id) == NewJob(<<MakeSource(fileId, 0, <<>>)>>, flags, id)

\* no priority() call has been made on the jobs
InitCalls ==
    /\ ppc = "idle" /\ cur = 0 /\ acc = 0 /\ seen = {} /\ stack = NoFrames
    /\ insertCount = [f \in Nodes |-> 0]
    /\ expandCount = [f \in Nodes |-> 0]
    /\ steps = 0
    /\ returned = [j \in DOMAIN pjobs |-> {}]
    /\ expected = [j \in DOMAIN pjobs |-> INT_MIN]
    /\ caller = [j \in DOMAIN pjobs |-> ""]
    /\ changes = 0

\* one job on file 1, which no buffer shows, over every graph
InitTraverse ==
    /\ InitProject /\ InitThreadVars /\ InitCtorVars /\ InitEncodeVars /\ InitListVars
    /\ \E E \in EdgeSets :
          /\ includes = IncludesOf(E)
          /\ nodes \in {Nodes, Endpoints(E)}
    /\ isSystem \in SUBSET Nodes
    /\ bufferType \in {b \in [Nodes -> {"Active", "Inactive"}] : b[1] = "Inactive"}
    /\ focused = FALSE
    /\ loaded = TRUE
    /\ pjobs = <<PriorityJob(1, {}, 1)>>
    /\ found = <<"n/a">>
    /\ InitCalls

SpecTraverse == InitTraverse /\ [][NextPriority]_vars

\* two jobs, on files 1 and 2, over two graphs: file 1 includes file 3 and
\* file 3 includes file 2, or nothing includes anything
PriorityEdgeSets == {{}, {<<1, 3>>, <<3, 2>>}}

InitPriority ==
    /\ InitProject /\ InitThreadVars /\ InitCtorVars /\ InitEncodeVars /\ InitListVars
    /\ \E E \in PriorityEdgeSets : includes = IncludesOf(E)
    /\ nodes = Nodes
    /\ isSystem = {}
    /\ bufferType \in [Nodes -> BufferTypes]
    /\ focused \in BOOLEAN
    /\ loaded \in BOOLEAN
    /\ \E f1 \in FlagSets, f2 \in FlagSets :
          pjobs = <<PriorityJob(1, f1, 1), PriorityJob(2, f2, 2)>>
    /\ found = <<"n/a", "n/a">>
    /\ InitCalls

SpecPriority == InitPriority /\ [][NextPriority]_vars

\* The Server's buffers and current project and the project's dependency
\* graph are not part of these sources; between two calls a buffer changes
\* its type, the focus moves, or an include edge comes or goes
SetBufferType(f, type) ==
    /\ ppc = "idle" /\ changes < MaxChanges
    /\ bufferType[f] # type
    /\ bufferType' = [bufferType EXCEPT ![f] = type]
    /\ changes' = changes + 1
    /\ UNCHANGED <<includes, nodes, isSystem, focused, loaded>>
    /\ UNCHANGED <<pjobs, found, ppc, cur, acc, seen, stack, insertCount, expandCount,
                   steps, returned, expected, caller>>
    /\ UNCHANGED <<projVars, thrVars, ctorVars, encVars, lsVars>>

SetCurrentProject ==
    /\ ppc = "idle" /\ changes < MaxChanges
    /\ focused' = ~focused
    /\ changes' = changes + 1
    /\ UNCHANGED <<includes, nodes, isSystem, bufferType, loaded>>
    /\ UNCHANGED <<pjobs, found, ppc, cur, acc, seen, stack, insertCount, expandCount,
                   steps, returned, expected, caller>>
    /\ UNCHANGED <<projVars, thrVars, ctorVars, encVars, lsVars>>

SetInclude(f, g) ==
    /\ ppc = "idle" /\ changes < MaxChanges
    /\ includes' = [includes EXCEPT ![f] = IF g \in @ THEN @ \ {g} ELSE @ \cup {g}]
    /\ changes' = changes + 1
    /\ UNCHANGED <<nodes, isSystem, bufferType, focused, loaded>>
    /\ UNCHANGED <<pjobs, found, ppc, cur, acc, seen, stack, insertCount, expandCount,
                   steps, returned, expected, caller>>
    /\ UNCHANGED <<projVars, thrVars, ctorVars, encVars, lsVars>>

NextCache ==
    \/ NextPriority
    \/ \E j \in DOMAIN pjobs : PriorityCached(j)
    \/ \E j \in DOMAIN pjobs : RecalculatePriority(j)
    \/ \E f \in Nodes, type \in BufferTypes : SetBufferType(f, type)
    \/ SetCurrentProject
    \/ \E f \in Nodes, g \in Nodes : SetInclude(f, g)

\* one job on file 1 in a loaded project, no buffer open, over the two graphs
InitCache ==
    /\ InitProject /\ InitThreadVars /\ InitCtorVars /\ InitEncodeVars /\ InitListVars
    /\ \E E \in PriorityEdgeSets : includes = IncludesOf(E)
    /\ nodes = Nodes
    /\ isSystem = {}
    /\ bufferType = [f \in Nodes |-> "Inactive"]
    /\ focused = FALSE
    /\ loaded = TRUE
    /\ \E f \in FlagSets : pjobs = <<PriorityJob(1, f, 1)>>
    /\ found = <<"n/a">>
    /\ InitCalls

SpecCache == InitCache /\ [][NextCache]_vars

(***************************************************************************)
(* IndexerJob::encode (IndexerJob.cpp 117-185).  A payload is a sequence   *)
(* of cells; a cell stands for the bytes one value is written as, and the  *)
(* four cells in front are the four bytes of the size.                     *)
(***************************************************************************)
\* std::find followed by erase: the first occurrence goes, if there is one
RECURSIVE EraseFirst(_, _)
EraseFirst(args, a) ==
    IF args = <<>> THEN <<>>
    ELSE IF Head(args) = a THEN Tail(args)
    ELSE <<Head(args)>> \o EraseFirst(Tail(args), a)

\* lines 132-147
TransformArguments(args, o) ==
    LET a1 == IF "AllowWErrorAndWFatalErrors" \notin o.options
              THEN EraseFirst(EraseFirst(args, "-Werror"), "-Wfatal-errors")
              ELSE args
        a2 == a1 \o o.defaultArguments
    IN  IF "AllowPedantic" \notin o.options
        THEN EraseFirst(a2, "-Wpedantic")
        ELSE a2

\* CompilerManager::applyToSource, Server::filterBlockedArguments and
\* Project::fixPCH are not part of these sources; they follow steps 4, 5
\* and 7 of section 4.2 of the specification
CompilerIncludePaths == <<"/usr/include">>
ApplyToSource(src) == [src EXCEPT !.includePaths = @ \o CompilerIncludePaths]

RECURSIVE DropBlocked(_, _)
DropBlocked(args, blocked) ==
    IF args = <<>> THEN <<>>
    ELSE IF Head(args) \in blocked THEN DropBlocked(Tail(args), blocked)
    ELSE <<Head(args)>> \o DropBlocked(Tail(args), blocked)
FilterBlockedArguments(src, o) ==
    [src EXCEPT !.arguments = DropBlocked(@, o.blockedArguments)]

FixPCH(src) ==
    [src EXCEPT !.arguments =
        [i \in 1..Len(@) |-> IF @[i] = "pch.h" THEN "pch.h.gch" ELSE @[i]]]

\* lines 131-161: what one source of the job has become when it is written
TransformSource(src, o) ==
    LET c1 == [src EXCEPT !.arguments = TransformArguments(@, o)]
        c2 == IF "EnableCompilerManager" \in o.options THEN ApplyToSource(c1) ELSE c1
        c3 == FilterBlockedArguments(c2, o)
        c4 == [c3 EXCEPT !.includePaths = o.includePaths \o @]
        c5 == IF "PCHEnabled" \in o.options THEN FixPCH(c4) ELSE c4
        c6 == [c5 EXCEPT !.defines = @ \cup o.defines]
    IN  IF "EnableNDEBUG" \notin o.options
        THEN [c6 EXCEPT !.defines = @ \ {"NDEBUG"}]
        ELSE c6

\* Source::encode is not part of these sources: the fields, lists with
\* their length in front
EncodeSource(src) ==
    <<src.fileId, src.buildRootId, Len(src.arguments)>> \o src.arguments
    \o <<Len(src.includePaths)>> \o src.includePaths
    \o <<src.defines>>

RECURSIVE EncodeSources(_, _)
EncodeSources(srcs, o) ==
    IF srcs = <<>> THEN <<>>
    ELSE EncodeSource(TransformSource(Head(srcs), o)) \o EncodeSources(Tail(srcs), o)

\* Project::encodeVisitedFiles (Project.h 151-155): the size, then every
\* entry in the order the iteration meets them
RECURSIVE EncodeEntries(_, _)
EncodeEntries(h, order) ==
    IF order = <<>> THEN <<>>
    ELSE <<Head(order), h[Head(order)]>> \o EncodeEntries(h, Tail(order))
EncodeHash(h, order) == <<Len(order)>> \o EncodeEntries(h, order)

\* The Serializer is not part of these sources.  What it appends to the
\* String, in bytes: a 16-, 32- or 64-bit integer by its width (2, 4, 8), a
\* string or a list by a 32-bit count and then its bytes or members
StringBytes(s) == 4 + Len(s)

RECURSIVE StringsBytes(_)
StringsBytes(list) ==
    IF list = <<>> THEN 0
    ELSE StringBytes(Head(list)) + StringsBytes(Tail(list))

RECURSIVE SetBytes(_)
SetBytes(S) ==
    IF S = {} THEN 0
    ELSE LET s == CHOOSE x \in S : TRUE
         IN  StringBytes(s) + SetBytes(S \ {s})

\* the bytes of the cells of EncodeSources: per source two ids and the
\* three counts, the arguments, the include paths and the defines
RECURSIVE SourcesBytes(_, _)
SourcesBytes(srcs, o) ==
    IF srcs = <<>> THEN 0
    ELSE LET src == TransformSource(Head(srcs), o)
         IN  4 + 4 + 4 + StringsBytes(src.arguments)
             + 4 + StringsBytes(src.includePaths)
             + 4 + SetBytes(src.defines)
             + SourcesBytes(Tail(srcs), o)

\* the bytes of the cells of EncodeEntries
RECURSIVE EntriesBytes(_, _)
EntriesBytes(h, order) ==
    IF order = <<>> THEN 0
    ELSE 4 + StringBytes(h[Head(order)]) + EntriesBytes(h, Tail(order))

\* lines 124-129 and 166-177: the cells before and after the sources; a
\* value the model does not hold has the length of its name
HeaderBytes ==
    2 + StringBytes("sandboxRoot") + 8 + StringBytes("socketFile")
    + StringBytes("project") + 4
TrailerBytes ==
    StringBytes("sourceFile") + 4 + 4 + 4 + 4 + 4 + 4 + 8
    + StringBytes("unsavedFiles") + StringBytes("dataDir")
    + StringBytes("debugLocations")

\* line 122: four bytes are written where the size will be
Placeholder == <<"1", "2", "3", "4">>

\* line 182: ret.size() once everything is written
RetSize(j, o, h, order) ==
    Len(Placeholder) + HeaderBytes + SourcesBytes(j.sources, o) + TrailerBytes
    + 4 + EntriesBytes(h, order)

\* lines 182-183: uint32_t size, copied over the first four bytes
SizeBytes(n) ==
    <<n % 256, (n \div 256) % 256, (n \div 65536) % 256, (n \div 16777216) % 256>>
PatchWithPrefix(r, size) == SizeBytes(size + 4) \o SubSeq(r, 5, Len(r))
Patch(r, size) == SizeBytes(size) \o SubSeq(r, 5, Len(r))

\* line 131: `for (Source copy : sources)` walks copies; sources stays
SourcesAfterEncodeByReference(srcs, o) ==
    [i \in 1..Len(srcs) |-> TransformSource(srcs[i], o)]
SourcesAfterEncode(srcs, o) == srcs

\* lines 119-184
Payload(j, o, h, order) ==
    LET r == Placeholder
             \o <<"DatabaseVersion", "sandboxRoot", j.id, "socketFile", "project",
                  Len(j.sources)>>
             \o EncodeSources(j.sources, o)
             \o <<j.sourceFile, j.flags, "rpVisitFileTimeout",
                  "rpIndexDataMessageTimeout", "rpConnectTimeout",
                  "rpConnectAttempts", "rpNiceValue", o.options, "unsavedFiles",
                  "dataDir", "debugLocations">>
             \o EncodeHash(h, order)
    IN  Patch(r, RetSize(j, o, h, order) - 4)

Encode ==
    /\ aborted = ""
    /\ encodeCalls < MaxEncodes
    /\ encodeCalls' = encodeCalls + 1
    /\ IF ~loaded
       THEN \* proj is null: line 155 calls through it when precompiled
            \* headers are on; else line 165 asserts, and without assertions
            \* line 179 calls through it
            /\ \E how \in IF "PCHEnabled" \in options.options
                           THEN {"crash"} ELSE {"assert", "crash"} :
                  aborted' = how
            /\ UNCHANGED <<job, payload, encodedFrom, repeated>>
       ELSE /\ payload' = Payload(job, options, mVisitedFiles, mVisitedOrder)
            /\ job' = [job EXCEPT !.sources = SourcesAfterEncode(@, options)]
            /\ encodedFrom' = <<mVisitedFiles, mVisitedOrder>>
            /\ repeated' = (repeated \/ (payload # NoPayload
                                /\ encodedFrom = <<mVisitedFiles, mVisitedOrder>>))
            /\ UNCHANGED aborted
    /\ UNCHANGED <<mVisitedFiles, mVisitedOrder, mActiveJobs, sNextId, ret, called>>
    /\ UNCHANGED <<options, ctorInput, ctorOutcome>>
    /\ UNCHANGED <<thrVars, envVars, prioVars, lsVars>>

OptionFlags == {"AllowWErrorAndWFatalErrors", "AllowPedantic", "EnableNDEBUG",
                "EnableCompilerManager", "PCHEnabled"}

\* the compiler manager and precompiled headers are switched together
OptionSets ==
    {a \cup b : a \in SUBSET (OptionFlags \ {"EnableCompilerManager", "PCHEnabled"}),
                b \in {{}, {"EnableCompilerManager", "PCHEnabled"}}}

EncodeOptions ==
    {[options |-> f, defaultArguments |-> d, includePaths |-> <<"/inc">>,
      defines |-> {"NDEBUG", "X"}, blockedArguments |-> {"-O2"}] :
        f \in OptionSets, d \in {<<>>, <<"-Werror", "-Wpedantic">>}}

EncodeSourcesOfJob ==
    {[MakeSource(1, 0, <<"-Werror", "-O2", "-Werror">>) EXCEPT !.defines = {"NDEBUG"}],
     MakeSource(1, 1, <<"-Wpedantic", "-Wfatal-errors", "pch.h">>)}

\* one constructed job, under every set of options, with or without its
\* project
InitEncode ==
    /\ InitProject /\ InitThreadVars /\ InitGraphVars /\ InitTraversalVars
    /\ InitListVars
    /\ loaded \in BOOLEAN
    /\ \E s \in SeqsUpTo(EncodeSourcesOfJob, MaxSources) \ {<<>>} :
          job = NewJob(s, {"Dirty"}, 1)
    /\ ctorInput = <<>>
    /\ ctorOutcome = "ok"
    /\ options \in EncodeOptions
    /\ payload = NoPayload
    /\ encodedFrom = <<>>
    /\ encodeCalls = 0
    /\ repeated = FALSE

NextEncode ==
    \/ Encode
    \/ \E fileId \in FileIds : VisitFile(fileId, "/a", 0)
    \/ \E fileId \in FileIds : ReleaseFileIds({fileId})

SpecEncode == InitEncode /\ [][NextEncode]_vars


(***************************************************************************)
(* ListSymbolsJob (ListSymbolsJob.cpp).  A String is the sequence of its   *)
(* characters.                                                             *)
(***************************************************************************)
\* String::indexOf: the position of the first c counted from 0, or -1
IndexOf(s, c) ==
    IF \E i \in 1..Len(s) : s[i] = c
    THEN (CHOOSE i \in 1..Len(s) : s[i] = c /\ \A j \in 1..(i - 1) : s[j] # c) - 1
    ELSE -1

\* String::left: the first n characters
Left(s, n) == SubSeq(s, 1, n)

HasChar(s, c) == \E i \in 1..Len(s) : s[i] = c
EndsWith(s, c) == Len(s) > 0 /\ s[Len(s)] = c

\* String::contains(sub)
StringContains(s, sub) ==
    \E i \in 0..(Len(s) - Len(sub)) : SubSeq(s, i + 1, i + Len(sub)) = sub

\* Project::matchSymbolName is not part of these sources: wildcard matching
\* as in section 4.5, `*` for any run of characters and `?` for one
RECURSIVE Glob(_, _)
Glob(p, s) ==
    IF p = <<>> THEN s = <<>>
    ELSE IF Head(p) = "*"
         THEN Glob(Tail(p), s) \/ (s # <<>> /\ Glob(p, Tail(s)))
    ELSE IF s = <<>> THEN FALSE
    ELSE (Head(p) = "?" \/ Head(p) = Head(s)) /\ Glob(Tail(p), Tail(s))
MatchSymbolName(pattern, name) == Glob(pattern, name)

\* RTags::isFunctionVariable is not part of these sources: a name with a
\* parameter list that names a variable, not a function; here the parameter
\* list is followed by `:` and the variable
IsFunctionVariable(s) ==
    \E e \in 1..(Len(s) - 1) :
        /\ s[e] = ")" /\ s[e + 1] = ":"
        /\ \A j \in (e + 1)..Len(s) : s[j] # ")"

\* the Symbol a table holds for a name, and QueryJob::filterKind (not part of
\* these sources): without a kind filter every symbol passes
KindOf(name) ==
    IF IndexOf(name, "(") = -1 \/ IsFunctionVariable(name)
    THEN "variable" ELSE "function"
SymbolOf(name) == [symbolName |-> name, kind |-> KindOf(name)]
FilterKind(symbol, kinds) == kinds = {} \/ symbol.kind \in kinds

\* QueryJob::hasFilter and QueryJob::filter (not part of these sources): a
\* path passes when some path filter covers its file
HasFilter(filters) == filters # <<>>
Filter(filters, f) == \E i \in 1..Len(filters) : f \in filters[i].covers

\* operator< of String: character by character in the order of the codes
CharOrder == <<"(", ")", "*", ":", "?", "b", "f", "v">>
CharRank(c) == CHOOSE i \in 1..Len(CharOrder) : CharOrder[i] = c
RECURSIVE StringLess(_, _)
StringLess(a, b) ==
    IF b = <<>> THEN FALSE
    ELSE IF a = <<>> THEN TRUE
    ELSE IF Head(a) # Head(b) THEN CharRank(Head(a)) < CharRank(Head(b))
    ELSE StringLess(Tail(a), Tail(b))

\* a std::set<String> walked from begin() to end(), and std::sort
RECURSIVE AscendingStrings(_)
AscendingStrings(S) ==
    IF S = {} THEN <<>>
    ELSE LET m == CHOOSE x \in S : \A y \in S \ {x} : StringLess(x, y)
         IN  <<m>> \o AscendingStrings(S \ {m})
Reversed(q) == [i \in 1..Len(q) |-> q[Len(q) + 1 - i]]


\* lines 102 and 49-50: wildcard matching is asked for and the string has
\* wildcard characters
IsWildcard(flags, string) ==
    "WildcardSymbolNames" \in flags /\ (HasChar(string, "*") \/ HasChar(string, "?"))

\* lines 49-52: the job's string gets a `*` at its end
StringAfter(flags, string) ==
    IF IsWildcard(flags, string) /\ ~EndsWith(string, "*")
    THEN Append(string, "*") ELSE string

\* lines 53-66: the paths of the filters when every filter names one file,
\* else none
RECURSIVE CollectPaths(_, _, _)
CollectPaths(filters, i, paths) ==
    IF i > Len(filters) THEN paths
    ELSE IF filters[i].mode = "Self" /\ filters[i].isFile
         THEN CollectPaths(filters, i + 1, Append(paths, filters[i]))
    ELSE <<>>

\* lines 123-131 (and, for Project::findSymbols, step 2 of section 4.5)
Matches(flags, string, name) ==
    \/ string = <<>>
    \/ IF IsWildcard(flags, string)
       THEN MatchSymbolName(string, name)
       ELSE StringContains(name, string)

\* lines 133-143: what the per-file scan inserts for a name
InsertedPerFile(name, stripParentheses) ==
    IF stripParentheses
    THEN IF IndexOf(name, "(") = -1 THEN {name}
         ELSE IF ~IsFunctionVariable(name) THEN {Left(name, IndexOf(name, "("))}
         ELSE {}
    ELSE {name}

\* lines 106-131: the names of the files' tables that reach the insertion
MatchedPerFile(j, paths) ==
    UNION {IF paths[i].fileId \in LsFiles
           THEN {n \in lsStore[paths[i].fileId] :
                   /\ FilterKind(SymbolOf(n), j.kinds)
                   /\ n # <<>>
                   /\ Matches(j.flags, j.string, n)}
           ELSE {} : i \in 1..Len(paths)}

\* lines 99-147
ListSymbolsWithPathFilter(j, paths) ==
    UNION {InsertedPerFile(name, "StripParentheses" \in j.flags) :
            name \in MatchedPerFile(j, paths)}

\* lines 175-183: what the project-wide scan inserts for a name
InsertedProjectWide(name, stripParentheses) ==
    IF IndexOf(name, "(") = -1 THEN {name}
    ELSE (IF ~IsFunctionVariable(name) THEN {Left(name, IndexOf(name, "("))} ELSE {})
         \cup (IF ~stripParentheses THEN {name} ELSE {})

\* Project::findSymbols is not part of these sources: it hands the inserter
\* every name of the project-wide index that matches, with its locations
LocationsOf(name) == {f \in LsFiles : name \in lsStore[f]}
FoundSymbols(j) ==
    {n \in UNION {lsStore[f] : f \in LsFiles} : n # <<>> /\ Matches(j.flags, j.string, n)}

\* lines 159-174: the found names that reach the insertion
MatchedProjectWide(j) ==
    {n \in FoundSymbols(j) :
       /\ HasFilter(j.filters) => \E f \in LocationsOf(n) : Filter(j.filters, f)
       /\ FilterKind(SymbolOf(n), j.kinds)}

\* lines 149-188
ListSymbols(j) ==
    UNION {InsertedProjectWide(name, "StripParentheses" \in j.flags) :
            name \in MatchedProjectWide(j)}

\* line 96
ExitStatusZero(o) == 1 - 1
ExitStatus(o) == IF o = {} THEN 1 ELSE 0

\* lines 74-95
Output(flags, o) ==
    IF "Elisp" \in flags THEN <<"(list">> \o AscendingStrings(o) \o <<")">>
    ELSE IF "ReverseSort" \in flags THEN Reversed(AscendingStrings(o))
    ELSE AscendingStrings(o)

\* lines 38-42
NewListJob(string, flags, filters, kinds) ==
    /\ ~lsJob.made
    /\ lsJob' = [made |-> TRUE, string |-> string, flags |-> flags,
                 filters |-> filters, kinds |-> kinds]
    /\ UNCHANGED <<lsStore, lsProject, out, written, status>>
    /\ UNCHANGED <<projVars, thrVars, ctorVars, envVars, prioVars, encVars>>

\* lines 44-97
Execute ==
    /\ lsJob.made
    /\ LET j == IF lsProject
                THEN [lsJob EXCEPT !.string = StringAfter(lsJob.flags, @)]
                ELSE lsJob
           paths == CollectPaths(j.filters, 1, <<>>)
           o == IF ~lsProject THEN {}
                ELSE IF paths # <<>> THEN ListSymbolsWithPathFilter(j, paths)
                ELSE ListSymbols(j)
       IN  /\ lsJob' = j
           /\ out' = o
           /\ written' = Output(j.flags, o)
           /\ status' = ExitStatus(o)
    /\ UNCHANGED <<lsStore, lsProject>>
    /\ UNCHANGED <<projVars, thrVars, ctorVars, envVars, prioVars, encVars>>

LsNames == {<<>>, <<"b">>, <<"f">>, <<"f", "(", ")">>, <<"f", "(", ")", ":", "v">>}
LsStrings == {<<>>, <<"f">>, <<"f", "?">>}
LsFlagSets ==
    {a \cup b : a \in SUBSET {"WildcardSymbolNames", "StripParentheses"},
                b \in {{}, {"Elisp"}, {"ReverseSort"}}}
FileFilter(f) == [mode |-> "Self", fileId |-> f, isFile |-> TRUE, covers |-> {f}]
DirFilter == [mode |-> "Self", fileId |-> 0, isFile |-> FALSE, covers |-> LsFiles]
UnknownFile == [mode |-> "Self", fileId |-> 0, isFile |-> TRUE, covers |-> {}]
LsFilterLists ==
    {<<>>, <<FileFilter(1)>>, <<FileFilter(1), FileFilter(2)>>,
     <<FileFilter(2), DirFilter>>, <<UnknownFile>>}
LsKindSets == {{}, {"variable"}}

\* a project with up to MaxSymbols names in the table of file 1 and one
\* fewer in that of file 2, or no project
InitList ==
    /\ InitProject /\ InitThreadVars /\ InitCtorVars /\ InitPriorityVars
    /\ InitEncodeVars
    /\ lsProject \in BOOLEAN
    /\ lsStore \in {s \in [LsFiles -> SUBSET LsNames] :
                      /\ Cardinality(s[1]) <= MaxSymbols
                      /\ Cardinality(s[2]) <= MaxSymbols - 1
                      /\ ~lsProject => s = [f \in LsFiles |-> {}]}
    /\ lsJob = NoListJob
    /\ out = {}
    /\ written = <<>>
    /\ status = -1

NextList ==
    \/ \E string \in LsStrings, flags \in LsFlagSets, filters \in LsFilterLists,
          kinds \in LsKindSets : NewListJob(string, flags, filters, kinds)
    \/ Execute

SpecList == InitList /\ [][NextList]_vars

(***************************************************************************)
(* Claims about Project::visitFile and the visited sets (C1 under          *)
(* SpecVisit, C2 under Spec).                                              *)
(***************************************************************************)
\* C1 as stated: for every file identifier, whatever the path and the key,
\* the first visitFile call since its release returns true and records its
\* path, and every later call returns false and leaves the stored path
\* (read over the calls that return).
C1_AnyPathAnyKey ==
    [][\A fileId \in FileIds, path \in Paths, key \in CallerKeys :
          (VisitFile(fileId, path, key) /\ aborted' = "") =>
             IF fileId \notin called
             THEN ret' = "true" /\ StoredPath(mVisitedFiles', fileId) = path
             ELSE /\ ret' = "false"
                  /\ StoredPath(mVisitedFiles', fileId)
                        = StoredPath(mVisitedFiles, fileId)]_vars

\* C1 amended: when the first visitFile call on a file identifier since its
\* release passes a non-empty path and a key that is 0 or registered in the
\* active jobs, it returns true and records its path; once a path is
\* recorded every later call (any path, any key) returns false and leaves
\* the stored path as it is.
C1_FirstClaimWins ==
    [][\A fileId \in FileIds, path \in Paths, key \in CallerKeys :
          VisitFile(fileId, path, key) =>
             /\ (/\ fileId \notin called
                 /\ path # EmptyPath
                 /\ (key = 0 \/ Contains(mActiveJobs, key)))
                   => /\ ret' = "true"
                      /\ StoredPath(mVisitedFiles', fileId) = path
             /\ (fileId \in called /\ StoredPath(mVisitedFiles, fileId) # EmptyPath)
                   => /\ ret' = "false"
                      /\ StoredPath(mVisitedFiles', fileId)
                            = StoredPath(mVisitedFiles, fileId)
                      /\ aborted' = ""]_vars

\* a second call on a claimed file identifier has returned false
C1_Witness ==
    /\ ret = "false"
    /\ aborted = ""
    /\ \E fileId \in called : StoredPath(mVisitedFiles, fileId) # EmptyPath


SameEntry(h1, h2, f) ==
    /\ Contains(h1, f) = Contains(h2, f)
    /\ StoredPath(h1, f) = StoredPath(h2, f)

\* what C12 says of releaseFileIds(S) itself
ReleaseFrame ==
    \A S \in SUBSET FileIds :
        ReleaseFileIds(S) =>
            /\ \A f \in S : ~Contains(mVisitedFiles', f)
            /\ \A f \in FileIds \ S : SameEntry(mVisitedFiles', mVisitedFiles, f)

\* C12 as stated: releaseFileIds(S) leaves no identifier of S in the visited
\* map and leaves every other entry as it was, and the next visitFile on a
\* released identifier with a non-empty path, whatever its key, returns true
\* and records the new path.
C12_ReleaseReopensAnyKey ==
    [][/\ ReleaseFrame
       /\ \A fileId \in FileIds, path \in Paths \ {EmptyPath}, key \in CallerKeys :
            (~Contains(mVisitedFiles, fileId) /\ fileId \notin called
                /\ VisitFile(fileId, path, key))
            => ret' = "true" /\ StoredPath(mVisitedFiles', fileId) = path]_vars

\* C12 amended: the same, for a next visitFile whose key is 0 or registered
\* in the active jobs.
C12_ReleaseReopens ==
    [][/\ ReleaseFrame
       /\ \A fileId \in FileIds, path \in Paths \ {EmptyPath},
             key \in {0} \cup DOMAIN mActiveJobs :
            (~Contains(mVisitedFiles, fileId) /\ fileId \notin called
                /\ VisitFile(fileId, path, key))
            => /\ ret' = "true"
               /\ aborted' = ""
               /\ StoredPath(mVisitedFiles', fileId) = path]_vars

\* releaseFileIds has just taken a file a job had claimed out of the map and
\* has left the entry of another file
C12_Witness ==
    /\ ret = "" /\ aborted = ""
    /\ \E k \in DOMAIN mActiveJobs : \E f \in mActiveJobs[k].visited :
          /\ f # mActiveJobs[k].sourceFile
          /\ ~Contains(mVisitedFiles, f)
          /\ f \notin called
          /\ \E g \in FileIds \ {f} : IsClaimed(mVisitedFiles, g)

\* C19: a visitFile call that returns true with a key other than 0 adds the
\* file to the visited set of the job registered under that key and changes
\* no other job; a call that returns true with key 0 and a call that
\* returns false change no job.
C19_OnlyKeyedJobGains ==
    [][\A fileId \in FileIds, path \in Paths, key \in CallerKeys :
          \/ mActiveJobs' =
                IF ret' = "true" /\ key \in DOMAIN mActiveJobs
                THEN [mActiveJobs EXCEPT ![key].visited =
                                            mActiveJobs[key].visited \cup {fileId}]
                ELSE mActiveJobs
          \/ ~(aborted = "" /\ ret' \in {"true", "false"}
                  /\ VisitFile(fileId, path, key))]_vars

\* a call has returned true and one job holds a file in its visited set
\* that is not its own and that the other job does not hold
C19_Witness ==
    /\ ret = "true"
    /\ \E k \in DOMAIN mActiveJobs : \E f \in mActiveJobs[k].visited :
          /\ f # mActiveJobs[k].sourceFile
          /\ IsClaimed(mVisitedFiles, f)
          /\ \E o \in DOMAIN mActiveJobs \ {k} : f \notin mActiveJobs[o].visited

\* C20 as stated: a visitFile call with a key that is not 0 and not registered
\* ends in an assertion failure, returns neither true nor false, and a file
\* that was not recorded before the call is not recorded after it.
C20_UnregisteredKeyAsserts ==
    [][\A fileId \in FileIds, path \in Paths,
          key \in CallerKeys \ ({0} \cup DOMAIN mActiveJobs) :
          (aborted = "" /\ VisitFile(fileId, path, key))
          => /\ aborted' = "assert"
             /\ ret' \notin {"true", "false"}
             /\ IsClaimed(mVisitedFiles', fileId) => IsClaimed(mVisitedFiles, fileId)]_vars

\* C2 as stated: no file identifier is in the visited set of two jobs of the
\* active-jobs registry.
C2_VisitedExclusive ==
    \A k1 \in DOMAIN mActiveJobs, k2 \in DOMAIN mActiveJobs :
        k1 # k2 => mActiveJobs[k1].visited \cap mActiveJobs[k2].visited = {}

IdsIncreasing ==
    \A i \in 1..Len(jobIds), j \in 1..Len(jobIds) : i < j => jobIds[i] < jobIds[j]

\* C4 as stated: whatever threads the constructions are started from, the
\* identifiers assigned are strictly increasing in the order of assignment,
\* so no two jobs get the same one.
C4_IdsIncreasingAnyThreads == IdsIncreasing

\* C4 amended: as long as no two constructions have run acquireId at the same
\* time, the identifiers assigned are strictly increasing in construction
\* order, so no two jobs get the same one.
C4_IdsIncreasingSequential == ~overlapped => IdsIncreasing

\* three constructions, one after the other
C4_Witness == ~overlapped /\ Len(jobIds) >= 3

(***************************************************************************)
(* Claims about the constructor (SpecCtor).                                *)
(***************************************************************************)
\* positions of the input whose source is equivalent to no earlier one
FirstOccurrences(s) ==
    {i \in 1..Len(s) : \A j \in 1..(i - 1) : ~compareArguments(s[i], s[j])}

\* the n-th smallest member of a set of positions
NthOf(F, n) == CHOOSE i \in F : Cardinality({j \in F : j < i}) = n - 1

\* C5: for a non-empty input, `sources` starts with the input's first
\* element, holds no two argument-equivalent entries, and is exactly the
\* earliest occurrence of every equivalence class, in input order.
C5_KeepsFirstOccurrences ==
    ctorOutcome = "ok" =>
        LET s == ctorInput
            kept == job.sources
            F == FirstOccurrences(s)
        IN  /\ kept[1] = s[1]
            /\ \A a \in 1..Len(kept), b \in 1..Len(kept) :
                   a # b => ~compareArguments(kept[a], kept[b])
            /\ Len(kept) = Cardinality(F)
            /\ \A n \in 1..Len(kept) : kept[n] = s[NthOf(F, n)]

\* a list whose third source repeats the arguments of the first, not of the
\* second, was cut down to two
C5_Witness ==
    /\ ctorOutcome = "ok"
    /\ Len(ctorInput) = 3
    /\ compareArguments(ctorInput[3], ctorInput[1])
    /\ ctorInput[3] # ctorInput[1]
    /\ ~compareArguments(ctorInput[2], ctorInput[1])
    /\ Len(job.sources) = 2

\* C6 as stated: a construction from an empty list ends in the constructor's
\* emptiness assertion, before an element is read or any job state is set.
C6_EmptyListAsserts ==
    (ctorInput = <<>> /\ ctorOutcome # "") => (ctorOutcome = "assert" /\ job = NoJob)

(***************************************************************************)
(* Claims about IndexerJob::priority                                       *)
(***************************************************************************)
Computed(j) == pjobs[j].mCachedPriority # INT_MIN

\* the four cases of C7, highest first
Rank(j) ==
    IF bufferType[PrimaryFile(j)] = "Active" THEN 3
    ELSE IF bufferType[PrimaryFile(j)] = "Open" THEN 2
    ELSE IF found[j] = "yes" THEN 1
    ELSE 0

\* C7: of two jobs with the same flags, in the same project and under the
\* same focus, whose priorities have been computed, the one whose primary
\* file ranks at least as high (Active, then Open, then Inactive with an
\* Active or Open file found by the traversal, then Inactive with none
\* found) has a priority at least as high.
C7_MonotonicInBufferActivity ==
    \A a \in DOMAIN pjobs : \A b \in DOMAIN pjobs :
        (Computed(a) /\ Computed(b) /\ pjobs[a].flags = pjobs[b].flags
            /\ Rank(a) >= Rank(b))
        => pjobs[a].mCachedPriority >= pjobs[b].mCachedPriority

\* an Open primary file against an Inactive one whose traversal found an
\* Active file, and on a third start an Active one against an Open one
C7_Witness ==
    /\ DOMAIN pjobs = {1, 2}
    /\ Computed(1) /\ Computed(2)
    /\ pjobs[1].flags = pjobs[2].flags
    /\ Rank(1) = 1 /\ Rank(2) = 2
    /\ pjobs[2].mCachedPriority > pjobs[1].mCachedPriority

EdgeCount == Cardinality({e \in Nodes \X Nodes : e[2] \in includes[e[1]]})

\* C8: on every graph, cycles and self-inclusion included, no node enters
\* the seen set twice, func is called on no node twice, the traversal has
\* taken no more steps than the graph has edges and nodes, and while it is
\* not over it can take another step.
C8_TraversalTerminates ==
    /\ \A f \in Nodes : insertCount[f] <= 1 /\ expandCount[f] <= 1
    /\ steps <= EdgeCount + NumNodes
    /\ ppc = "traverse" => ENABLED TraverseStep

\* a finished traversal over 1 -> 2 -> 1 where 2 also includes itself
C8_Witness ==
    /\ ppc = "idle" /\ DOMAIN pjobs = {1} /\ Computed(1)
    /\ includes[1] = {2} /\ includes[2] = {1, 2}
    /\ isSystem = {}
    /\ expandCount[1] = 1 /\ expandCount[2] = 1
    /\ steps >= 5

\* files reachable from the set S over includes edges into files that are
\* not system headers
RECURSIVE ReachNonSystem(_)
ReachNonSystem(S) ==
    LET T == S \cup {g \in Nodes : g \notin isSystem
                                   /\ \E f \in S : g \in includes[f]}
    IN  IF T = S THEN S ELSE ReachNonSystem(T)

ActiveReachable(fileId) ==
    /\ fileId \notin isSystem
    /\ \E g \in ReachNonSystem({fileId}) : bufferType[g] # "Inactive"

\* C9: for an Inactive primary file with a dependency node the computed
\* priority holds the 2 exactly when an Active or Open file is reachable
\* from it along a path without system headers.
C9_BonusIffActiveReachable ==
    \A j \in DOMAIN pjobs :
        (Computed(j) /\ bufferType[PrimaryFile(j)] = "Inactive"
            /\ loaded /\ PrimaryFile(j) \in nodes)
        => pjobs[j].mCachedPriority =
              FlagBonus(pjobs[j].flags) + FocusBonus
              + (IF ActiveReachable(PrimaryFile(j)) THEN FoundBonus ELSE 0)


\* C15: of two jobs whose priorities have been computed, with primary files
\* in the same buffer state, the same traversal outcome and under the same
\* focus, the one created with only the Dirty flag has a strictly higher
\* priority than the one created with only the Reindex flag.
C15_DirtyOutranksReindex ==
    \A a \in DOMAIN pjobs : \A b \in DOMAIN pjobs :
        (/\ Computed(a) /\ Computed(b)
         /\ pjobs[a].flags = {"Dirty"} /\ pjobs[b].flags = {"Reindex"}
         /\ bufferType[PrimaryFile(a)] = bufferType[PrimaryFile(b)]
         /\ (found[a] = "yes") <=> (found[b] = "yes"))
        => pjobs[a].mCachedPriority > pjobs[b].mCachedPriority


\* C16: every value priority() has returned for a job since its cache was
\* last reset is the value the state gave when the cached value was computed,
\* by the first priority() call or by recalculatePriority(), whatever has
\* changed in the buffers, the focus and the graph since.
C16_CachedUntilRecalculated ==
    \A j \in DOMAIN pjobs : \A r \in returned[j] : r.value = expected[j]

\* after recalculatePriority() the state has changed so that it gives another
\* priority, and priority() has been called
C16_Witness ==
    \E j \in DOMAIN pjobs :
        /\ caller[j] = "recalculatePriority" /\ ppc = "idle"
        /\ \E r \in returned[j] : r.stale
        /\ PriorityValue(j) # pjobs[j].mCachedPriority


\* what the flags have added to a computed priority: the priority less what
\* the buffer type, the traversal and the focus have added
FlagPart(j) ==
    pjobs[j].mCachedPriority - BufferBonus(bufferType[PrimaryFile(j)])
        - (IF found[j] = "yes" THEN FoundBonus ELSE 0) - FocusBonus

\* C17: the flags add 1 to a computed priority whenever Dirty is set, also
\* when Reindex is set too, 4 when Reindex is set and Dirty is not, 0 when
\* neither is set, and never 5.
C17_FlagContributionExclusive ==
    \A j \in DOMAIN pjobs :
        Computed(j) =>
            /\ "Dirty" \in pjobs[j].flags => FlagPart(j) = 1
            /\ ("Reindex" \in pjobs[j].flags /\ "Dirty" \notin pjobs[j].flags)
                  => FlagPart(j) = 4
            /\ pjobs[j].flags \cap {"Dirty", "Reindex"} = {} => FlagPart(j) = 0
            /\ FlagPart(j) # 5

\* a computed priority of a job with both flags, and one of a job with
\* Reindex alone
C17_Witness ==
    /\ DOMAIN pjobs = {1, 2} /\ Computed(1) /\ Computed(2)
    /\ pjobs[1].flags = {"Dirty", "Reindex"} /\ FlagPart(1) = 1
    /\ pjobs[2].flags = {"Reindex"} /\ FlagPart(2) = 4


\* the files some include path from fileId reaches on which no file, fileId
\* and the last one included, is a system header
CleanlyReachable(fileId) ==
    IF fileId \in isSystem THEN {} ELSE ReachNonSystem({fileId})

\* C18: when every Active or Open file is a system header or is reached from
\* the Inactive primary file only along paths that hold a system header, the
\* traversal finds nothing and the computed priority holds no 2.
C18_SystemHeadersNeverContribute ==
    \A j \in DOMAIN pjobs :
        (/\ Computed(j) /\ bufferType[PrimaryFile(j)] = "Inactive"
         /\ \A g \in Nodes : bufferType[g] # "Inactive"
                                => g \notin CleanlyReachable(PrimaryFile(j)))
        => /\ found[j] # "yes"
           /\ pjobs[j].mCachedPriority = FlagBonus(pjobs[j].flags) + FocusBonus

\* file 1 includes the Active system header 2 alone, which includes the
\* Active file 3, and the priority of the job on file 1 has been computed
C18_Witness ==
    /\ DOMAIN pjobs = {1} /\ Computed(1) /\ found[1] = "no"
    /\ includes[1] = {2} /\ 3 \in includes[2]
    /\ isSystem = {2}
    /\ bufferType[2] = "Active" /\ bufferType[3] = "Active"


\* C22: every priority that is cached or has been returned lies in 0..13,
\* so it is not the sentinel; between calls the cache of a job is set once
\* priority() or recalculatePriority() has run for it, and is unset only
\* while none has.
C22_PriorityInRange ==
    \A j \in DOMAIN pjobs :
        /\ IsCached(j) => pjobs[j].mCachedPriority \in 0..13
        /\ \A r \in returned[j] : r.value \in 0..13 /\ r.value # INT_MIN
        /\ ppc = "idle" => (IsCached(j) <=> caller[j] # "")

\* the highest priority, 13, cached by recalculatePriority() and returned
\* by priority() afterwards
C22_Witness ==
    \E j \in DOMAIN pjobs :
        /\ ppc = "idle" /\ caller[j] = "recalculatePriority"
        /\ pjobs[j].mCachedPriority = 13
        /\ \E r \in returned[j] : r.value = 13

(***************************************************************************)
(* Claims about IndexerJob::encode                                         *)
(***************************************************************************)
\* C10: a call of encode() that returns leaves the job, the project's maps
\* and the options as they were, and when a payload was made before from
\* the visited-files map as it is now, the call returns that payload again.
C10_EncodeChangesNothing ==
    [][(encodeCalls' # encodeCalls /\ aborted' = "")
        => /\ job' = job
           /\ mVisitedFiles' = mVisitedFiles
           /\ mVisitedOrder' = mVisitedOrder
           /\ mActiveJobs' = mActiveJobs
           /\ options' = options
           /\ (payload # NoPayload /\ encodedFrom = <<mVisitedFiles, mVisitedOrder>>)
                => payload' = payload]_vars

\* a job of two sources has been encoded twice in a row over a map of two
\* files, with arguments to strip and defaults to append
C10_Witness ==
    /\ repeated /\ encodeCalls = 2 /\ aborted = ""
    /\ Len(job.sources) = 2
    /\ Len(mVisitedOrder) = 2
    /\ options.options = {} /\ options.defaultArguments # <<>>
    /\ encodedFrom = <<mVisitedFiles, mVisitedOrder>>

\* what a reader of the payload gets back: the argument lists of the `count`
\* sources written from cell `pos` on
RECURSIVE ArgumentsFrom(_, _, _)
ArgumentsFrom(p, pos, count) ==
    IF count = 0 THEN <<>>
    ELSE LET nargs == p[pos + 2]
             nincs == p[pos + 3 + nargs]
         IN  <<SubSeq(p, pos + 3, pos + 2 + nargs)>>
             \o ArgumentsFrom(p, pos + 5 + nargs + nincs, count - 1)

PayloadArguments(p) == ArgumentsFrom(p, 11, p[10])

Occurs(a, args) == \E i \in 1..Len(args) : args[i] = a

\* C11 as stated: when warnings-as-errors are not allowed no argument list
\* of the payload holds -Werror or -Wfatal-errors, and when pedantic mode
\* is not allowed none holds -Wpedantic.
C11_FlagsStripped ==
    payload # NoPayload =>
        \A i \in 1..Len(PayloadArguments(payload)) :
            LET args == PayloadArguments(payload)[i]
            IN  /\ "AllowWErrorAndWFatalErrors" \notin options.options
                     => ~Occurs("-Werror", args) /\ ~Occurs("-Wfatal-errors", args)
                /\ "AllowPedantic" \notin options.options
                     => ~Occurs("-Wpedantic", args)

\* the number a reader gets from the first four bytes
DecodeSize(p) == p[1] + 256 * p[2] + 65536 * p[3] + 16777216 * p[4]

\* reading `count` sources from cell `pos` on: the cell after them and the
\* bytes they took
RECURSIVE ReadSources(_, _, _)
ReadSources(p, pos, count) ==
    IF count = 0 THEN [pos |-> pos, bytes |-> 0]
    ELSE LET nargs == p[pos + 2]
             nincs == p[pos + 3 + nargs]
             rest == ReadSources(p, pos + 5 + nargs + nincs, count - 1)
         IN  [pos |-> rest.pos,
              bytes |-> 4 + 4 + 4
                        + StringsBytes(SubSeq(p, pos + 3, pos + 2 + nargs))
                        + 4
                        + StringsBytes(SubSeq(p, pos + 4 + nargs,
                                              pos + 3 + nargs + nincs))
                        + 4 + SetBytes(p[pos + 4 + nargs + nincs])
                        + rest.bytes]

\* reading `count` entries of the visited files from cell `pos` on
RECURSIVE ReadEntries(_, _, _)
ReadEntries(p, pos, count) ==
    IF count = 0 THEN 0
    ELSE 4 + StringBytes(p[pos + 1]) + ReadEntries(p, pos + 2, count - 1)

\* what a reader of the payload takes behind the first four bytes: the
\* sources, the eleven cells of the trailer, the number of visited files
\* and their entries; the bytes read, the cell that holds that number and
\* the last cell read
ReadPayload(p) ==
    LET s == ReadSources(p, 11, p[10])
        at == s.pos + 11
    IN  [bytes |-> HeaderBytes + s.bytes + TrailerBytes
                   + 4 + ReadEntries(p, at + 1, p[at]),
         visited |-> p[at],
         last |-> at + 2 * p[at]]

\* C21: the first four bytes of every payload encode() returns hold the
\* number of bytes that follow them, the size of the payload less 4, and the
\* payload ends where the visited files end.
C21_LengthPrefix ==
    payload # NoPayload =>
        LET r == ReadPayload(payload)
        IN  /\ DecodeSize(payload) = r.bytes
            /\ r.last = Len(payload)

\* a payload of a job with two sources made while two files are visited
C21_Witness ==
    /\ payload # NoPayload
    /\ payload[10] = 2
    /\ ReadPayload(payload).visited = 2
    /\ DecodeSize(payload) > 100

(***************************************************************************)
(* Claims about ListSymbolsJob                                             *)
(***************************************************************************)

\* execute() has returned
Executed == status # -1

\* C13: execute() returns a non-zero status exactly when the collected set
\* is empty and zero otherwise; with an absent project it collects nothing
\* and returns non-zero, and no abort happens.
C13_StatusIffEmpty ==
    Executed =>
        /\ status \in {0, 1}
        /\ (status # 0) <=> (out = {})
        /\ ~lsProject => (out = {} /\ status # 0)
        /\ aborted = ""

\* execute() has returned for a job without a project
C13_Witness == Executed /\ ~lsProject /\ status = 1 /\ written \in {<<>>, <<"(list", ")">>}

\* the names the scan chosen by execute() (lines 67-71) lets through that
\* have a parameter list and are not function-pointer variables
Parenthesized ==
    {n \in (IF CollectPaths(lsJob.filters, 1, <<>>) # <<>>
            THEN MatchedPerFile(lsJob, CollectPaths(lsJob.filters, 1, <<>>))
            ELSE MatchedProjectWide(lsJob)) :
       IndexOf(n, "(") # -1 /\ ~IsFunctionVariable(n)}

\* C14: for every matching name with a parameter list that is not a
\* function-pointer variable, the result holds the bare and the full name when
\* parentheses are not stripped, and the bare name without the full name when
\* they are, on both scans.
C14_BareAndFull ==
    (Executed /\ lsProject) =>
        \A n \in Parenthesized :
            /\ Left(n, IndexOf(n, "(")) \in out
            /\ (n \in out) <=> ("StripParentheses" \notin lsJob.flags)

====
